---- MODULE Spec2Model ----
(***************************************************************************)
(* Model of the account store of go-api-example (storage/postgres.go):     *)
(* the accounts table, CreateAccount, GetAccount, and ExecuteTransfer as   *)
(* the sequence of statements it sends inside one database transaction,    *)
(* run by several concurrent callers; and of CreateAccountHandler          *)
(* (handler/account_handler.go), the handler of POST /accounts.            *)
(*                                                                         *)
(* Decimal values are integers counting the smallest amount the model      *)
(* tracks: one unit of the balance column (NUMERIC(19, 5), i.e. 0.00001)   *)
(* is Unit of them, so amounts carrying more fractional digits than the    *)
(* column are representable and the column's rounding is visible.          *)
(*                                                                         *)
(* The store is taken to be a transactional store at READ COMMITTED: a     *)
(* transaction's updates are private until its commit, which applies them  *)
(* atomically; a failed statement (or a cancelled context) makes the call  *)
(* return an error and the deferred rollback discards the private updates; *)
(* a locking read waits for a row lock and then reads the row's latest     *)
(* committed version.                                                      *)
(***************************************************************************)
EXTENDS Integers, Sequences, FiniteSets, TLC

\* Calls issued in all by the callers of the general scenario.
MaxCalls == 2
\* Fractional digits the model tracks beyond the 5 of the balance column.
ExtraDigits == 1

Unit == 10 ^ ExtraDigits
Half == Unit \div 2

Procs == 1 .. 4
Ids == 1 .. 4
\* Transfer amounts: a reverse unit, zero, half a column unit, one, two units.
Amounts == {0 - Unit, 0, Half, Unit, 2 * Unit}
\* Balances accounts are created with.
InitBalances == {Unit, 2 * Unit}
\* The accounts the callers of the general scenario create and name.
PairIds == {1, 2}
\* The accounts and balances of the single-caller scenario.
SoloIds == {1, 2, 3}
SoloBalances == {0 - Unit, 0, Unit, 2 * Unit}
\* The balances and ids the client of the store scenario passes.
StoreBalances == {0 - Unit, 0, Half, 2 * Unit}
ReadIds == {0 - 1, 0, 1, 2}
\* The balances and amounts of the negative-amount scenario.
ReverseBalances == {0 - (2 * Unit), 0, Unit}
ReverseAmounts == {0 - Unit, 0 - Half}
\* The largest coefficient of the decimals marshalled.
MaxCoef == 12
\* for i := 0; i < 5; i++
MaxAttempts == 5
\* Calls each caller of the cycle scenario issues.
CycleRounds == 2

VARIABLES
    accounts,       \* the committed accounts table: account_id -> balance
    created,        \* history: the balance each row was inserted with
    lockHolder,     \* row locks: locked account_id -> the caller holding it
    pc,             \* each caller's position inside ExecuteTransfer
    req,            \* each caller's TransactionRequest
    toLock,         \* rows the locking read has still to lock and return
    sourceAccount,  \* sourceAccount.Balance as scanned
    foundSource,
    foundDest,
    writes,         \* the open transaction's uncommitted row versions
    result,         \* what the last call returned
    calls,          \* calls the caller may still issue
    plan,           \* the requests the caller issues (fixed by the scenario)
    asked,          \* history: the balance passed to the call that inserted the row
    last,           \* what the last observed CreateAccount or GetAccount call returned
    cancelled,      \* each caller's context: "no", or when it was cancelled
    http,           \* the POST /accounts requests being handled
    txHttp,         \* the POST /transactions request each caller serves
    getResp,        \* the last response of GET /accounts/{account_id}
    wire,           \* a model value on its way through encoding/json
    creating,       \* the CreateAccount calls in flight, by client
    boot,           \* NewPostgresStore: its loop, its err and what it returned
    order           \* history: the callers by first row lock and by return

\* The variables ExecuteTransfer and the unobserved CreateAccount leave alone.
apiVars == <<last, cancelled, http, txHttp, getResp, wire, creating,
             boot>>

vars == <<accounts, created, lockHolder, pc, req, toLock, sourceAccount,
          foundSource, foundDest, writes, result, calls, plan, asked, apiVars,
          order>>

NoReq == [src |-> 0, dst |-> 0, amount |-> 0]
RequestsOver(ids, amounts) == [src : ids, dst : ids, amount : amounts]
EmptyMap == [i \in {} |-> 0]
\* No CreateAccount or GetAccount call observed yet.
NoCall == [op |-> "none", id |-> 0, arg |-> 0, err |-> "none", balance |-> 0]
\* The handlers serving POST /accounts concurrently, and a handler at rest.
Handlers == {1, 2}
NoHttp == [pc |-> "idle", id |-> 0, balance |-> 0, existing |-> FALSE,
           inserted |-> FALSE, status |-> 0,
           body |-> [ok |-> FALSE, id |-> 0, balance |-> 0],
           called |-> FALSE, failed |-> "none"]

\* No POST /transactions request received, and no GET response written.
NoBody == [ok |-> FALSE, src |-> 0, dst |-> 0, amount |-> 0]
NoTxHttp == [pc |-> "idle", body |-> NoBody, executed |-> 0, status |-> 0,
             message |-> ""]
NoPath == [present |-> FALSE, id |-> <<>>]
NoGetResp == [path |-> NoPath, status |-> 0, called |-> FALSE, err |-> "none",
              id |-> 0, balance |-> 0]

\* Nothing marshalled or unmarshalled yet.
NoWire == [stage |-> "idle"]
\* The clients calling CreateAccount concurrently, and a client with no call.
Creators == {1, 2, 3}
NoCreate == [pc |-> "idle", id |-> 0, balance |-> 0, err |-> "none"]
\* NewPostgresStore entered: var pool, var err, no attempt made yet.
NoBoot == [pc |-> "loop", tries |-> <<>>, err |-> "nil", schema |-> "none",
           ret |-> "none"]

Abs(x) == IF x < 0 THEN 0 - x ELSE x

\* Assignment to a NUMERIC(19, 5) column rounds to 5 fractional digits,
\* ties away from zero.
RoundToScale(x) ==
    LET q == (Abs(x) + Half) \div Unit
    IN  IF x < 0 THEN 0 - (q * Unit) ELSE q * Unit

Min(S) == CHOOSE x \in S : \A y \in S : x <= y

RECURSIVE SortAsc(_)
SortAsc(S) == IF S = {} THEN <<>> ELSE <<Min(S)>> \o SortAsc(S \ {Min(S)})

\* WHERE account_id = $1 OR account_id = $2, against the rows that exist.
MatchingRows(r) == {r.src, r.dst} \cap DOMAIN accounts

\* Mutant: the rows are locked source first, then destination.
LockOrderByRole(r) ==
    IF r.src \notin DOMAIN accounts
      THEN SortAsc(MatchingRows(r))
      ELSE <<r.src>> \o SortAsc(MatchingRows(r) \ {r.src})

\* ORDER BY account_id FOR UPDATE: rows are locked and returned in
\* ascending account_id order.
LockOrder(r) == SortAsc(MatchingRows(r))

\* The row version a statement of caller p's transaction sees.
Current(p, id) == IF id \in DOMAIN writes[p] THEN writes[p][id] ELSE accounts[id]

Put(m, k, v) == [i \in DOMAIN m \cup {k} |-> IF i = k THEN v ELSE m[i]]

\* Row locks left once caller p's transaction has ended.
Release(p) == [i \in {j \in DOMAIN lockHolder : lockHolder[j] # p} |-> lockHolder[i]]

Sum(m) ==
    LET RECURSIVE S(_)
        S(D) == IF D = {} THEN 0
                ELSE LET d == CHOOSE x \in D : TRUE IN m[d] + S(D \ {d})
    IN  S(DOMAIN m)

----------------------------------------------------------------------------
TypeOK ==
    /\ DOMAIN accounts \subseteq Ids
    /\ DOMAIN created = DOMAIN accounts
    /\ DOMAIN asked = DOMAIN accounts
    /\ DOMAIN lockHolder \subseteq DOMAIN accounts
    /\ \A p \in Procs : pc[p] \in
          {"idle", "begin", "query", "locking", "validate", "debit", "credit",
           "commit", "done"}

\* Every caller outside ExecuteTransfer, no transaction open, no row locked.
\* No call has been made.
Idle ==
    /\ lockHolder = EmptyMap
    /\ pc = [p \in Procs |-> "idle"]
    /\ req = [p \in Procs |-> NoReq]
    /\ toLock = [p \in Procs |-> <<>>]
    /\ sourceAccount = [p \in Procs |-> 0]
    /\ foundSource = [p \in Procs |-> FALSE]
    /\ foundDest = [p \in Procs |-> FALSE]
    /\ writes = [p \in Procs |-> EmptyMap]
    /\ result = [p \in Procs |-> "none"]
    /\ last = NoCall
    /\ cancelled = [p \in Procs |-> "no"]
    /\ http = [h \in Handlers |-> NoHttp]
    /\ txHttp = [p \in Procs |-> NoTxHttp]
    /\ getResp = NoGetResp
    /\ wire = NoWire
    /\ creating = [c \in Creators |-> NoCreate]
    /\ boot = NoBoot

\* No history of the callers' order is kept (it is kept in the serial
\* scenario only).
NoOrder == [on |-> FALSE, locked |-> <<>>, returned |-> <<>>]

Quiescent == Idle /\ order = NoOrder

\* Caller p's transaction has come to its first row lock (or its locking
\* read has found no row to lock).
NoteLocked(p) ==
    order' = IF order.on THEN [order EXCEPT !.locked = Append(@, p)] ELSE order

\* Caller p's call returns.
NoteReturned(p) ==
    order' = IF order.on THEN [order EXCEPT !.returned = Append(@, p)] ELSE order

\* The general scenario: an empty table (initSchema), accounts 1 and 2
\* created at any time, caller 1 issuing any transfer over them and caller 2
\* transfers of one unit, MaxCalls calls in all.
Init ==
    /\ accounts = EmptyMap
    /\ created = EmptyMap
    /\ asked = EmptyMap
    /\ Quiescent
    /\ calls \in {c \in [Procs -> 0 .. MaxCalls] :
                    /\ c[1] + c[2] = MaxCalls
                    /\ c[1] >= c[2]
                    /\ \A p \in Procs \ {1, 2} : c[p] = 0}
    /\ plan = [p \in Procs |->
                 IF p = 1 THEN RequestsOver(PairIds, Amounts)
                 ELSE IF p = 2 THEN RequestsOver(PairIds, {Unit})
                 ELSE {}]

\* All tables over the given ids and balances (some ids may have no row).
Tables(ids, balances) == UNION {[D -> balances] : D \in SUBSET ids}

\* The store scenario: an empty table, a client creating accounts 1 and 2
\* with any of StoreBalances and reading ids ReadIds at any time, while
\* caller 1 issues one transfer, any request over the two accounts.
InitStore ==
    /\ accounts = EmptyMap
    /\ created = EmptyMap
    /\ asked = EmptyMap
    /\ Quiescent
    /\ calls = [p \in Procs |-> IF p = 1 THEN 1 ELSE 0]
    /\ plan = [p \in Procs |-> IF p = 1 THEN RequestsOver(PairIds, Amounts) ELSE {}]

\* The isolation scenario: two funded accounts, caller 1 transferring half a
\* column unit or one unit from 1 to 2, caller 2 any transfer of one unit
\* over the two accounts, and a client reading both accounts at any time.
InitIsolation ==
    /\ accounts \in [PairIds -> InitBalances]
    /\ created = accounts
    /\ asked = accounts
    /\ Quiescent
    /\ calls = [p \in Procs |-> IF p <= 2 THEN 1 ELSE 0]
    /\ plan = [p \in Procs |->
                 IF p = 1 THEN {[src |-> 1, dst |-> 2, amount |-> a] : a \in {Half, Unit}}
                 ELSE IF p = 2 THEN RequestsOver(PairIds, {Unit})
                 ELSE {}]

\* The HTTP scenario: each handler serves one POST /accounts, on a table
\* that may already hold accounts 1 and 2; no transfer runs.
InitHttp ==
    /\ accounts \in Tables(PairIds, {Unit})
    /\ created = accounts
    /\ asked = accounts
    /\ Quiescent
    /\ calls = [p \in Procs |-> 0]
    /\ plan = [p \in Procs |-> {}]

\* The API scenario: an empty table; two handlers of POST /accounts and two
\* of POST /transactions each serve one request, all four concurrently.
InitApi ==
    /\ accounts = EmptyMap
    /\ created = EmptyMap
    /\ asked = EmptyMap
    /\ Quiescent
    /\ calls = [p \in Procs |-> 0]
    /\ plan = [p \in Procs |-> {}]

\* The POST /transactions scenario: each handler serves one request, on any
\* table over accounts 1 and 2.
InitTx ==
    /\ accounts \in Tables(PairIds, InitBalances)
    /\ created = accounts
    /\ asked = accounts
    /\ Quiescent
    /\ calls = [p \in Procs |-> 0]
    /\ plan = [p \in Procs |-> {}]

\* TestExecuteTransfer_ContextCancellation: caller 1 issues one transfer of
\* one or two units over accounts 1 and 2, its context cancelled at any time.
InitCancel ==
    /\ accounts \in Tables(PairIds, InitBalances)
    /\ created = accounts
    /\ asked = accounts
    /\ Quiescent
    /\ calls = [p \in Procs |-> IF p = 1 THEN 1 ELSE 0]
    /\ plan = [p \in Procs |->
                 IF p = 1 THEN RequestsOver(PairIds, InitBalances) ELSE {}]

\* One caller, one call, any request over accounts 1..3, on any table; nothing
\* else runs (TestExecuteTransfer_Success, TestExecuteTransfer_FailureCases).
InitSolo ==
    /\ accounts \in Tables(SoloIds, SoloBalances)
    /\ created = accounts
    /\ asked = accounts
    /\ Quiescent
    /\ calls = [p \in Procs |-> IF p = 1 THEN 1 ELSE 0]
    /\ plan = [p \in Procs |-> IF p = 1 THEN RequestsOver(SoloIds, Amounts) ELSE {}]

\* TestExecuteTransfer_FailureCases, "negative amount transfer": one caller,
\* one call with a negative amount over accounts 1 and 2, on any table.
InitReverse ==
    /\ accounts \in Tables(PairIds, ReverseBalances)
    /\ created = accounts
    /\ asked = accounts
    /\ Quiescent
    /\ calls = [p \in Procs |-> IF p = 1 THEN 1 ELSE 0]
    /\ plan = [p \in Procs |->
                 IF p = 1 THEN RequestsOver(PairIds, ReverseAmounts) ELSE {}]

\* TestExecuteTransfer_DeadlockPrevention: four funded accounts, callers
\* running the legs 1->2, 2->3, 3->4, 4->1 of one unit, each leg repeatedly.
CycleLeg(p) == [src |-> p, dst |-> (p % 4) + 1, amount |-> Unit]

InitCycle ==
    /\ accounts = [i \in Ids |-> CycleRounds * Unit]
    /\ created = accounts
    /\ asked = accounts
    /\ Quiescent
    /\ calls = [p \in Procs |-> CycleRounds]
    /\ plan = [p \in Procs |-> {CycleLeg(p)}]

\* The accounts of the free scenario.
AnyIds == {1, 2, 3}

\* The free scenario: three accounts of one unit each; callers 1, 2 and 3
\* each issue one transfer of one unit between any two of them, the pair
\* chosen when the call is made (equal, reversed, chained, overlapping).
InitAny ==
    /\ accounts = [i \in AnyIds |-> Unit]
    /\ created = accounts
    /\ asked = accounts
    /\ Quiescent
    /\ calls = [p \in Procs |-> IF p \in AnyIds THEN 1 ELSE 0]
    /\ plan = [p \in Procs |->
                IF p \in AnyIds THEN RequestsOver(AnyIds, {Unit}) ELSE {}]

\* The callers of the serial scenario.
SerialCallers == {1, 2, 3}

\* The serial scenario: accounts 1 and 2, each missing, empty or holding one
\* unit; three callers each issue one transfer of one unit over any pair of
\* the two; the order of the first row locks and the order of the returns
\* are recorded.
InitSerial ==
    /\ accounts \in Tables(PairIds, {0, Unit})
    /\ created = accounts
    /\ asked = accounts
    /\ Idle
    /\ order = [on |-> TRUE, locked |-> <<>>, returned |-> <<>>]
    /\ calls = [p \in Procs |-> IF p \in SerialCallers THEN 1 ELSE 0]
    /\ plan = [p \in Procs |->
                IF p \in SerialCallers THEN RequestsOver(PairIds, {Unit})
                ELSE {}]

\* TestExecuteTransfer_ConcurrentTransfers: callers 1 and 2 transfer a from
\* account 1 to account 2 while callers 3 and 4 transfer a from 2 to 1; both
\* accounts hold at least the 2 * a needed.
InitPingPong ==
    /\ accounts \in [PairIds -> {2 * Unit, 3 * Unit}]
    /\ created = accounts
    /\ asked = accounts
    /\ Quiescent
    /\ calls = [p \in Procs |-> 1]
    /\ \E a \in {Half, Unit} :
         plan = [p \in Procs |->
                   IF p <= 2 THEN {[src |-> 1, dst |-> 2, amount |-> a]}
                   ELSE {[src |-> 2, dst |-> 1, amount |-> a]}]

\* Mutant: ON CONFLICT (account_id) DO UPDATE SET balance = EXCLUDED.balance.
InsertRowUpsert(id, b) ==
    /\ accounts' = Put(accounts, id, RoundToScale(b))
    /\ IF id \in DOMAIN accounts
         THEN UNCHANGED <<created, asked>>
         ELSE /\ created' = Put(created, id, RoundToScale(b))
              /\ asked' = Put(asked, id, b)

\* INSERT INTO accounts (account_id, balance) VALUES ($1, $2) ON CONFLICT
\* (account_id) DO NOTHING: one autocommitted statement; the balance is
\* rounded to the column's scale.
InsertRow(id, b) ==
    IF id \in DOMAIN accounts
      THEN UNCHANGED <<accounts, created, asked>>
      ELSE /\ accounts' = Put(accounts, id, RoundToScale(b))
           /\ created' = Put(created, id, RoundToScale(b))
           /\ asked' = Put(asked, id, b)

\* CreateAccount, its return value not observed.
CreateAccount(id, b) ==
    /\ InsertRow(id, b)
    /\ UNCHANGED <<lockHolder, pc, req, toLock, sourceAccount, foundSource,
                   foundDest, writes, result, calls, plan, apiVars, order>>

\* CreateAccount called by a client that looks at what it returns: nil
\* whether or not a row was inserted.
CreateAccountCall(id, b) ==
    /\ InsertRow(id, b)
    /\ last' = [op |-> "CreateAccount", id |-> id, arg |-> b, err |-> "nil",
                balance |-> 0]
    /\ UNCHANGED <<lockHolder, pc, req, toLock, sourceAccount, foundSource,
                   foundDest, writes, result, calls, plan, cancelled, http,
                   txHttp, getResp, wire, creating, boot, order>>

bootFrame == <<accounts, created, asked, lockHolder, pc, req, toLock,
               sourceAccount, foundSource, foundDest, writes, result, calls,
               plan, last, cancelled, http, txHttp, getResp, wire, creating,
               order>>

\* Mutant: the inner err is not a new variable (err = pool.Ping(ctx)).
AfterAttemptUnshadowed(outer, try) == IF try = "ok" THEN "nil" ELSE "error"

\* The function's err after one pass of the loop: pool, err = pgxpool.New
\* assigns it; if err := pool.Ping(ctx) declares another err, so a failed
\* ping leaves the nil of New in it.
AfterAttempt(outer, try) == IF try = "new failed" THEN "error" ELSE "nil"

\* One pass of the loop: New fails, or New succeeds and Ping fails, or both
\* succeed and the loop is left (break); a failed pass sleeps and counts.
Attempt(try) ==
    /\ boot.pc = "loop"
    /\ Len(boot.tries) < MaxAttempts
    /\ boot' = [boot EXCEPT !.tries = Append(@, try),
                            !.err = AfterAttempt(boot.err, try),
                            !.pc = IF try = "ok" THEN "after" ELSE "loop"]
    /\ UNCHANGED bootFrame

\* i < 5 fails: the loop ends.
LoopEnd ==
    /\ boot.pc = "loop"
    /\ Len(boot.tries) = MaxAttempts
    /\ boot' = [boot EXCEPT !.pc = "after"]
    /\ UNCHANGED bootFrame

\* if err != nil: return nil and the connect error; otherwise the store is
\* built and initSchema is called.
AfterLoop ==
    /\ boot.pc = "after"
    /\ boot' = IF boot.err # "nil"
                 THEN [boot EXCEPT !.pc = "done",
                                   !.ret = "could not connect to database after retries"]
                 ELSE [boot EXCEPT !.pc = "schema"]
    /\ UNCHANGED bootFrame

\* store.initSchema(ctx) runs and succeeds or fails.
InitSchema(ok) ==
    /\ boot.pc = "schema"
    /\ boot' = [boot EXCEPT !.pc = "done",
                            !.schema = IF ok THEN "ok" ELSE "failed",
                            !.ret = IF ok THEN "store"
                                    ELSE "could not initialize schema"]
    /\ UNCHANGED bootFrame

\* The start-up scenario: NewPostgresStore against a database that refuses
\* or accepts each attempt.
NextBoot ==
    \/ \E try \in {"new failed", "ping failed", "ok"} : Attempt(try)
    \/ LoopEnd
    \/ AfterLoop
    \/ \E ok \in BOOLEAN : InitSchema(ok)

SpecBoot == InitStore /\ [][NextBoot]_vars

\* Client c calls CreateAccount with account id and balance b; the INSERT has
\* not been executed yet.
CreateEnter(c, id, b) ==
    /\ creating[c].pc = "idle"
    /\ creating' = [creating EXCEPT ![c] = [pc |-> "exec", id |-> id,
                                            balance |-> b, err |-> "none"]]
    /\ UNCHANGED <<accounts, created, asked, lockHolder, pc, req, toLock,
                   sourceAccount, foundSource, foundDest, writes, result, calls,
                   plan, last, cancelled, http, txHttp, getResp, wire, boot, order>>

\* s.db.Exec runs client c's INSERT ... ON CONFLICT DO NOTHING, one
\* autocommitted statement, and CreateAccount returns its nil error.
CreateExec(c) ==
    /\ creating[c].pc = "exec"
    /\ InsertRow(creating[c].id, creating[c].balance)
    /\ creating' = [creating EXCEPT ![c].pc = "done", ![c].err = "nil"]
    /\ UNCHANGED <<lockHolder, pc, req, toLock, sourceAccount, foundSource,
                   foundDest, writes, result, calls, plan, last, cancelled,
                   http, txHttp, getResp, wire, boot, order>>

\* The balances the concurrent CreateAccount calls pass.
CreateBalances == {0, Half, Unit, 2 * Unit}

\* The creation scenario: on an empty table the clients call CreateAccount
\* for account 1 or 2 concurrently, the calls for one id all with different
\* balances.
NextCreate ==
    \/ \E c \in Creators, id \in PairIds, b \in CreateBalances :
          /\ \A d \in Creators \ {c} :
                ~(creating[d].id = id /\ creating[d].balance = b)
          /\ CreateEnter(c, id, b)
    \/ \E c \in Creators : CreateExec(c)

SpecCreate == InitStore /\ [][NextCreate]_vars

\* SELECT account_id, balance FROM accounts WHERE account_id = $1, outside
\* any transaction: the row's latest committed version, read without waiting
\* for its lock; pgx.ErrNoRows becomes ErrNotFound and a nil account.
GetAccount(id) ==
    /\ last' = IF id \in DOMAIN accounts
                 THEN [op |-> "GetAccount", id |-> id, arg |-> 0, err |-> "nil",
                       balance |-> accounts[id]]
                 ELSE [op |-> "GetAccount", id |-> id, arg |-> 0,
                       err |-> "ErrNotFound", balance |-> 0]
    /\ UNCHANGED <<accounts, created, asked, lockHolder, pc, req, toLock,
                   sourceAccount, foundSource, foundDest, writes, result,
                   calls, plan, cancelled, http, txHttp, getResp, wire, creating, boot, order>>

\* The decimal digits, as the characters of an account_id path segment.
Digits == <<"0", "1", "2", "3", "4", "5", "6", "7", "8", "9">>
IsDigit(c) == \E d \in 1 .. 10 : Digits[d] = c
DigitOf(c) == (CHOOSE d \in 1 .. 10 : Digits[d] = c) - 1

\* The digits of 1<<63 - 1, the largest int64.
MaxInt64 == <<"9", "2", "2", "3", "3", "7", "2", "0", "3", "6", "8", "5", "4", "7",
              "7", "5", "8", "0", "7">>

RECURSIVE StripZeros(_)
StripZeros(ds) ==
    IF Len(ds) > 1 /\ Head(ds) = "0" THEN StripZeros(Tail(ds)) ELSE ds

RECURSIVE NumberOf(_)
NumberOf(ds) ==
    IF ds = <<>> THEN 0
    ELSE 10 * NumberOf(SubSeq(ds, 1, Len(ds) - 1)) + DigitOf(ds[Len(ds)])

\* Digit strings a and b of one length: a is the greater number.
RECURSIVE GreaterDigits(_, _)
GreaterDigits(a, b) ==
    IF a = <<>> THEN FALSE
    ELSE IF Head(a) # Head(b) THEN DigitOf(Head(a)) > DigitOf(Head(b))
    ELSE GreaterDigits(Tail(a), Tail(b))

\* The magnitude ds does not fit an int64: above 1<<63 - 1, or above 1<<63
\* for a negative number.
OutOfRange(ds, negative) ==
    LET m == StripZeros(ds) IN
        \/ Len(m) > Len(MaxInt64)
        \/ /\ Len(m) = Len(MaxInt64)
           /\ GreaterDigits(m, MaxInt64)
           /\ ~(negative /\ SubSeq(m, 1, Len(m) - 1) = SubSeq(MaxInt64, 1, Len(m) - 1)
                         /\ m[Len(m)] = "8")

\* Mutant: the leading digits are parsed and what follows them is ignored.
ParseIntPrefix(str) ==
    LET signed == str # <<>> /\ Head(str) \in {"+", "-"}
        ds == IF signed THEN Tail(str) ELSE str
        n == IF \E k \in 1 .. Len(ds) : ~IsDigit(ds[k])
               THEN (CHOOSE k \in 1 .. Len(ds) :
                        ~IsDigit(ds[k]) /\ \A j \in 1 .. k - 1 : IsDigit(ds[j])) - 1
               ELSE Len(ds)
        lead == SubSeq(ds, 1, n)
        negative == signed /\ Head(str) = "-"
    IN  IF lead = <<>> \/ OutOfRange(lead, negative)
          THEN [ok |-> FALSE, value |-> 0]
          ELSE [ok |-> TRUE,
                value |-> IF negative THEN 0 - NumberOf(lead) ELSE NumberOf(lead)]

\* strconv.ParseInt(idStr, 10, 64): an optional sign and one or more decimal
\* digits, nothing else, the value within the int64 range.
ParseInt(str) ==
    LET signed == str # <<>> /\ Head(str) \in {"+", "-"}
        ds == IF signed THEN Tail(str) ELSE str
        negative == signed /\ Head(str) = "-"
    IN  IF ds = <<>> \/ (\E k \in 1 .. Len(ds) : ~IsDigit(ds[k]))
             \/ OutOfRange(ds, negative)
          THEN [ok |-> FALSE, value |-> 0]
          ELSE [ok |-> TRUE,
                value |-> IF negative THEN 0 - NumberOf(ds) ELSE NumberOf(ds)]

\* decimal.Decimal: coef * 10 ^ exp.
Decimals == [coef : (0 - MaxCoef) .. MaxCoef, exp : {0 - 2, 0 - 1, 0, 1}]
ZeroDecimal == [coef |-> 0, exp |-> 0]

\* Decimal.Equal: the two denote one number.
Equal(d, e) ==
    LET m == IF d.exp < e.exp THEN d.exp ELSE e.exp
    IN  d.coef * (10 ^ (d.exp - m)) = e.coef * (10 ^ (e.exp - m))

RECURSIVE DigitsOfNat(_)
DigitsOfNat(n) ==
    IF n < 10 THEN <<Digits[n + 1]>>
    ELSE DigitsOfNat(n \div 10) \o <<Digits[(n % 10) + 1]>>

\* strconv.FormatInt(n, 10), as encoding/json writes an int64.
FormatInt(n) == IF n < 0 THEN <<"-">> \o DigitsOfNat(0 - n) ELSE DigitsOfNat(n)

RECURSIVE Zeros(_)
Zeros(k) == IF k <= 0 THEN <<>> ELSE <<"0">> \o Zeros(k - 1)

RECURSIVE TrimTrailingZeros(_)
TrimTrailingZeros(ds) ==
    IF ds # <<>> /\ ds[Len(ds)] = "0"
      THEN TrimTrailingZeros(SubSeq(ds, 1, Len(ds) - 1))
      ELSE ds

\* Decimal.String(): an integer for exp >= 0; otherwise the digits with the
\* point -exp places from the right, padded with zeros on the left, the
\* trailing zeros of the fraction (and a bare point) dropped.
DecimalString(d) ==
    LET ds == DigitsOfNat(Abs(d.coef))
        k == 0 - d.exp
        int == IF Len(ds) > k THEN SubSeq(ds, 1, Len(ds) - k) ELSE <<"0">>
        frac == TrimTrailingZeros(
                    IF Len(ds) > k THEN SubSeq(ds, Len(ds) - k + 1, Len(ds))
                    ELSE Zeros(k - Len(ds)) \o ds)
        number == IF d.exp >= 0 THEN DigitsOfNat(Abs(d.coef) * (10 ^ d.exp))
                  ELSE IF frac = <<>> THEN int
                  ELSE int \o <<".">> \o frac
    IN  IF d.coef < 0 THEN <<"-">> \o number ELSE number

\* The positions of the characters of cs in str.
Positions(str, cs) == {k \in 1 .. Len(str) : str[k] \in cs}

\* decimal.NewFromString: an optional exponent after the first e or E, at
\* most one point, and the remaining characters an integer; err is
\* "can't convert ... to decimal" otherwise.
NewFromString(str) ==
    LET es == Positions(str, {"e", "E"})
        eIndex == IF es = {} THEN 0 ELSE Min(es)
        expPart == ParseInt(SubSeq(str, eIndex + 1, Len(str)))
        value == IF eIndex = 0 THEN str ELSE SubSeq(str, 1, eIndex - 1)
        ps == Positions(value, {"."})
        pIndex == IF ps = {} THEN 0 ELSE Min(ps)
        intString == IF pIndex = 0 THEN value
                     ELSE SubSeq(value, 1, pIndex - 1)
                            \o SubSeq(value, pIndex + 1, Len(value))
        fraction == IF pIndex = 0 THEN 0 ELSE Len(value) - pIndex
        parsed == ParseInt(intString)
        failed == [err |-> "can't convert to decimal", d |-> ZeroDecimal]
    IN  IF eIndex # 0 /\ ~expPart.ok THEN failed
        ELSE IF Cardinality(ps) > 1 THEN failed
        ELSE IF ~parsed.ok THEN failed
        ELSE [err |-> "nil",
              d |-> [coef |-> parsed.value,
                     exp |-> (IF eIndex = 0 THEN 0 ELSE expPart.value) - fraction]]

\* Mutant: MarshalJSONWithoutQuotes, the decimal written as a JSON number.
MarshalJSONWithoutQuotes(d) == [kind |-> "number", text |-> DecimalString(d)]

\* Decimal.MarshalJSON: the decimal's String() as a JSON string.
MarshalJSON(d) == [kind |-> "string", text |-> DecimalString(d)]

\* Decimal.UnmarshalJSON into a field holding d: null is accepted and leaves
\* the field as it is; a string loses its quotes; what remains (the text of
\* a string, a number literal, true) goes to NewFromString.
UnmarshalJSON(d, tok) ==
    IF tok.kind = "null" THEN [err |-> "nil", d |-> d]
    ELSE NewFromString(tok.text)

\* The structs of package model, their id fields and their amount field.
ModelTypes == {"Account", "CreateAccountRequest", "TransactionRequest"}
IdFields(type) ==
    IF type = "TransactionRequest"
      THEN <<"source_account_id", "destination_account_id">>
      ELSE <<"account_id">>
AmountField(type) ==
    CASE type = "Account" -> "balance"
      [] type = "CreateAccountRequest" -> "initial_balance"
      [] type = "TransactionRequest" -> "amount"

\* The values marshalled: every struct, a few ids, every decimal.
ModelValues ==
    {v \in [type : ModelTypes, ids : {<<12>>, <<0 - 1>>, <<12, 0 - 1>>, <<7, 7>>},
            amount : Decimals] :
        Len(v.ids) = Len(IdFields(v.type))}

\* json.Marshal of a struct: the object's members by name.
Marshal(v) ==
    [k \in {IdFields(v.type)[i] : i \in 1 .. Len(v.ids)} \cup {AmountField(v.type)} |->
        IF k = AmountField(v.type) THEN MarshalJSON(v.amount)
        ELSE LET i == CHOOSE j \in 1 .. Len(v.ids) : IdFields(v.type)[j] = k
             IN  [kind |-> "number", text |-> FormatInt(v.ids[i])]]

\* json.Unmarshal of an object into a zero struct of the type: an int64
\* field takes a number literal, the amount field goes to UnmarshalJSON; the
\* first failure is the error returned.
Unmarshal(type, obj) ==
    LET n == Len(IdFields(type))
        idOf(i) == ParseInt(obj[IdFields(type)[i]].text)
        idsOk == \A i \in 1 .. n :
                    obj[IdFields(type)[i]].kind = "number" /\ idOf(i).ok
        amount == UnmarshalJSON(ZeroDecimal, obj[AmountField(type)])
    IN  IF ~idsOk THEN [err |-> "cannot unmarshal into int64", v |-> NoWire]
        ELSE IF amount.err # "nil" THEN [err |-> amount.err, v |-> NoWire]
        ELSE [err |-> "nil",
              v |-> [type |-> type, ids |-> [i \in 1 .. n |-> idOf(i).value],
                     amount |-> amount.d]]

\* The amount members unmarshalled on their own: strings and literals that
\* are decimals, and some that are not.
AmountTokens ==
    [kind : {"string"},
     text : {<<"1", "0", "0", ".", "5", "0">>, <<"-", "0", ".", "0", "5">>,
             <<"1", "e", "2">>, <<".", "5">>, <<"5", ".">>,
             <<"n", "o", "t", "-", "a", "-", "n", "u", "m", "b", "e", "r">>,
             <<"a", "b", "c">>, <<>>, <<"1", ".", "2", ".", "3">>, <<"-">>,
             <<"1", "0", "0", " ">>}]
    \cup {[kind |-> "number", text |-> <<"1", "0", "0", ".", "5">>],
          [kind |-> "true", text |-> <<"t", "r", "u", "e">>],
          [kind |-> "null", text |-> <<"n", "u", "l", "l">>]}

\* json.Marshal(v).
MarshalValue(v) ==
    /\ wire' = [stage |-> "marshalled", value |-> v, json |-> Marshal(v),
                out |-> [err |-> "none", v |-> NoWire]]
    /\ UNCHANGED <<accounts, created, asked, lockHolder, pc, req, toLock,
                   sourceAccount, foundSource, foundDest, writes, result,
                   calls, plan, last, cancelled, http, txHttp, getResp, creating, boot, order>>

\* json.Unmarshal of what was marshalled, into a struct of the same type.
UnmarshalBack ==
    /\ wire.stage = "marshalled"
    /\ wire' = [wire EXCEPT !.stage = "unmarshalled",
                            !.out = Unmarshal(wire.value.type, wire.json)]
    /\ UNCHANGED <<accounts, created, asked, lockHolder, pc, req, toLock,
                   sourceAccount, foundSource, foundDest, writes, result,
                   calls, plan, last, cancelled, http, txHttp, getResp, creating, boot, order>>

\* json.Unmarshal of an object whose ids are those of v and whose amount
\* member is tok.
UnmarshalAmount(v, tok) ==
    /\ wire' = [stage |-> "decoded", value |-> v,
                json |-> [Marshal(v) EXCEPT ![AmountField(v.type)] = tok],
                out |-> Unmarshal(v.type,
                                  [Marshal(v) EXCEPT ![AmountField(v.type)] = tok])]
    /\ UNCHANGED <<accounts, created, asked, lockHolder, pc, req, toLock,
                   sourceAccount, foundSource, foundDest, writes, result,
                   calls, plan, last, cancelled, http, txHttp, getResp, creating, boot, order>>

\* The account_id path variables requested: none, ids with and without an
\* account, signed and zero-padded ids, and strings that are no int64.
IdPaths ==
    {NoPath} \cup
    [present : {TRUE},
     id : {<<>>, <<"1">>, <<"2">>, <<"3">>, <<"0">>, <<"-", "1">>, <<"+", "2">>,
           <<"0", "1">>, <<"a">>, <<"1", "a">>, <<"-">>, <<"1", ".", "5">>,
           MaxInt64 \o <<"0">>,
           SubSeq(MaxInt64, 1, 18) \o <<"8">>,
           <<"-">> \o SubSeq(MaxInt64, 1, 18) \o <<"9">>}]

\* GetAccountHandler with the store answering: 400 when the path variable is
\* missing or does not parse, 404 when the account has no row, else 200 with
\* the account encoded as JSON.
GetAccountHandler(path) ==
    /\ getResp' =
          IF ~path.present \/ ~ParseInt(path.id).ok
            THEN [path |-> path, status |-> 400, called |-> FALSE, err |-> "none",
                  id |-> 0, balance |-> 0]
            ELSE LET accountID == ParseInt(path.id).value IN
                   IF accountID \in DOMAIN accounts
                     THEN [path |-> path, status |-> 200, called |-> TRUE,
                           err |-> "nil", id |-> accountID,
                           balance |-> accounts[accountID]]
                     ELSE [path |-> path, status |-> 404, called |-> TRUE,
                           err |-> "ErrNotFound", id |-> 0, balance |-> 0]
    /\ UNCHANGED <<accounts, created, asked, lockHolder, pc, req, toLock,
                   sourceAccount, foundSource, foundDest, writes, result,
                   calls, plan, last, cancelled, http, txHttp, wire, creating, boot, order>>

\* GetAccountHandler with GetAccount returning a database error: 500.
GetHandlerFault(path) ==
    /\ path.present
    /\ ParseInt(path.id).ok
    /\ getResp' = [path |-> path, status |-> 500, called |-> TRUE,
                   err |-> "could not get account", id |-> 0, balance |-> 0]
    /\ UNCHANGED <<accounts, created, asked, lockHolder, pc, req, toLock,
                   sourceAccount, foundSource, foundDest, writes, result,
                   calls, plan, last, cancelled, http, txHttp, wire, creating, boot, order>>

\* The request bodies POSTed to /accounts: one that does not decode, and
\* account_id 1 or 2 with a negative or a positive initial_balance.
HttpBodies ==
    {[ok |-> FALSE, id |-> 0, balance |-> 0]}
        \cup [ok : {TRUE}, id : PairIds, balance : {0 - Unit, Unit, 2 * Unit}]

\* What a handler of POST /accounts leaves alone besides the table.
handlerFrame == <<lockHolder, pc, req, toLock, sourceAccount, foundSource,
                  foundDest, writes, result, calls, plan, last, cancelled,
                  txHttp, getResp, wire, creating, boot, order>>

\* Mutant: a negative initial_balance is not refused.
PostAccountsUnchecked(h, body) ==
    /\ http[h].pc = "idle"
    /\ IF ~body.ok
         THEN http' = [http EXCEPT ![h].pc = "done", ![h].status = 400,
                                   ![h].body = body]
         ELSE http' = [http EXCEPT ![h].pc = "check", ![h].id = body.id,
                                   ![h].balance = body.balance,
                                   ![h].body = body]
    /\ UNCHANGED <<accounts, created, asked, handlerFrame>>

\* CreateAccountHandler up to the store: the body is decoded (400 when it
\* does not decode) and a negative initial_balance is refused (400).
PostAccounts(h, body) ==
    /\ http[h].pc = "idle"
    /\ IF ~body.ok \/ body.balance < 0
         THEN http' = [http EXCEPT ![h].pc = "done", ![h].status = 400,
                                   ![h].body = body]
         ELSE http' = [http EXCEPT ![h].pc = "check", ![h].id = body.id,
                                   ![h].balance = body.balance,
                                   ![h].body = body]
    /\ UNCHANGED <<accounts, created, asked, handlerFrame>>

\* existingAcc, err := h.store.GetAccount(...): existingAcc is nil when the
\* account has no row (ErrNotFound is not treated as an error).
CheckExisting(h) ==
    /\ http[h].pc = "check"
    /\ http' = [http EXCEPT ![h].pc = "create",
                              ![h].existing = (http[h].id \in DOMAIN accounts)]
    /\ UNCHANGED <<accounts, created, asked, handlerFrame>>

\* h.store.CreateAccount(...) returns nil, and the status is chosen from
\* existingAcc: 201 when it is nil, 200 otherwise.
CreateAndRespond(h) ==
    /\ http[h].pc = "create"
    /\ InsertRow(http[h].id, http[h].balance)
    /\ http' = [http EXCEPT ![h].pc = "done",
                              ![h].called = TRUE,
                              ![h].inserted = (http[h].id \notin DOMAIN accounts),
                              ![h].status = IF http[h].existing THEN 200 ELSE 201]
    /\ UNCHANGED handlerFrame

\* Mutant: the error of GetAccount is logged and the handler goes on.
HandlerStoreFaultIgnored(h) ==
    /\ http[h].pc \in {"check", "create"}
    /\ http' = IF http[h].pc = "check"
                 THEN [http EXCEPT ![h].pc = "create", ![h].failed = "GetAccount"]
                 ELSE [http EXCEPT ![h].pc = "done", ![h].status = 500,
                                   ![h].called = TRUE,
                                   ![h].failed = "CreateAccount"]
    /\ UNCHANGED <<accounts, created, asked, handlerFrame>>

\* GetAccount returns an error that is not ErrNotFound, or CreateAccount is
\* called and returns an error: 500, and the handler returns.
HandlerStoreFault(h) ==
    /\ http[h].pc \in {"check", "create"}
    /\ http' = [http EXCEPT ![h].pc = "done", ![h].status = 500,
                              ![h].called = (http[h].pc = "create"),
                              ![h].failed = IF http[h].pc = "check"
                                              THEN "GetAccount"
                                              ELSE "CreateAccount"]
    /\ UNCHANGED <<accounts, created, asked, handlerFrame>>

\* The caller's last call has returned.
Returned(p) == pc[p] = "done"

\* Mutant: the statements are sent with a context that is never cancelled.
LiveIgnoringContext(p) == TRUE

\* The ctx handed to Begin, Query, Exec and Commit is not cancelled: a
\* statement given a cancelled context fails without being executed.
Live(p) == cancelled[p] = "no"

\* ExecuteTransfer is entered with request r: nothing found yet.
StartTransfer(p, r) ==
    /\ pc' = [pc EXCEPT ![p] = "begin"]
    /\ req' = [req EXCEPT ![p] = r]
    /\ result' = [result EXCEPT ![p] = "none"]
    /\ sourceAccount' = [sourceAccount EXCEPT ![p] = 0]
    /\ foundSource' = [foundSource EXCEPT ![p] = FALSE]
    /\ foundDest' = [foundDest EXCEPT ![p] = FALSE]

\* A caller enters ExecuteTransfer with a request.
Call(p, r) ==
    /\ pc[p] \in {"idle", "done"}
    /\ calls[p] > 0
    /\ r \in plan[p]
    /\ StartTransfer(p, r)
    /\ calls' = [calls EXCEPT ![p] = @ - 1]
    /\ UNCHANGED <<accounts, created, lockHolder, toLock, writes, plan, asked,
                   apiVars, order>>

\* The callers that serve POST /transactions, and the bodies POSTed: one
\* that does not decode, and any source, destination and amount.
TxHandlers == {1, 2}
TxBodies == {NoBody} \cup [ok : {TRUE}, src : PairIds, dst : PairIds, amount : Amounts]

\* Mutant: the amount is not checked.
RejectedWithoutAmountCheck(body) ==
    \/ ~body.ok
    \/ body.src = body.dst

\* Mutant: only a negative amount is refused (IsNegative for !IsPositive).
RejectedNegativeOnly(body) ==
    \/ ~body.ok
    \/ body.src = body.dst
    \/ body.amount < 0

\* The request is refused before the store is called: the body does not
\* decode, SourceAccountID == DestinationAccountID, or !Amount.IsPositive().
Rejected(body) ==
    \/ ~body.ok
    \/ body.src = body.dst
    \/ ~(body.amount > 0)

\* CreateTransactionHandler up to the store: a refused request is answered
\* 400, any other enters h.store.ExecuteTransfer with the decoded request.
PostTransactions(p, body) ==
    /\ txHttp[p].pc = "idle"
    /\ pc[p] = "idle"
    /\ IF Rejected(body)
         THEN /\ txHttp' = [txHttp EXCEPT ![p].pc = "done", ![p].body = body,
                                          ![p].status = 400]
              /\ UNCHANGED <<pc, req, result, sourceAccount, foundSource, foundDest>>
         ELSE /\ txHttp' = [txHttp EXCEPT ![p].pc = "executing", ![p].body = body,
                                          ![p].executed = @ + 1]
              /\ StartTransfer(p, [src |-> body.src, dst |-> body.dst,
                                   amount |-> body.amount])
    /\ UNCHANGED <<accounts, created, asked, lockHolder, toLock, writes, calls,
                   plan, last, cancelled, http, getResp, wire, creating, boot, order>>

\* Mutant: ErrNotFound falls to the default branch.
TransferStatusUnmapped(err) ==
    CASE err = "nil" -> [status |-> 200, message |-> ""]
      [] err = "ErrInsufficientFunds" ->
            [status |-> 422, message |-> "Insufficient funds"]
      [] OTHER -> [status |-> 500, message |-> "Failed to process transaction"]

\* The switch on the error ExecuteTransfer returned.
TransferStatus(err) ==
    CASE err = "nil" -> [status |-> 200, message |-> ""]
      [] err = "ErrInsufficientFunds" ->
            [status |-> 422, message |-> "Insufficient funds"]
      [] err = "ErrNotFound" ->
            [status |-> 404, message |-> "One or both accounts not found"]
      [] OTHER -> [status |-> 500, message |-> "Failed to process transaction"]

\* ExecuteTransfer has returned to the handler, which writes the response.
TransactionResponse(p) ==
    /\ txHttp[p].pc = "executing"
    /\ Returned(p)
    /\ txHttp' = [txHttp EXCEPT ![p].pc = "done",
                                  ![p].status = TransferStatus(result[p]).status,
                                  ![p].message = TransferStatus(result[p]).message]
    /\ UNCHANGED <<accounts, created, asked, lockHolder, pc, req, toLock,
                   sourceAccount, foundSource, foundDest, writes, result,
                   calls, plan, last, cancelled, http, getResp, wire, creating, boot, order>>

\* tx, err := s.db.Begin(ctx) succeeds.
Begin(p) ==
    /\ pc[p] = "begin"
    /\ Live(p)
    /\ pc' = [pc EXCEPT ![p] = "query"]
    /\ UNCHANGED <<accounts, created, lockHolder, req, toLock, sourceAccount,
                   foundSource, foundDest, writes, result, calls, plan, asked, apiVars, order>>

\* The rows whose lock caller p holds.
Held(p) == {i \in DOMAIN lockHolder : lockHolder[i] = p}

\* tx.Query starts the locking read: the statement's snapshot fixes the rows
\* it will lock and return.
Query(p) ==
    /\ pc[p] = "query"
    /\ Live(p)
    /\ toLock' = [toLock EXCEPT ![p] = LockOrder(req[p])]
    /\ pc' = [pc EXCEPT ![p] = IF LockOrder(req[p]) = <<>> THEN "validate" ELSE "locking"]
    /\ UNCHANGED <<accounts, created, lockHolder, req, sourceAccount,
                   foundSource, foundDest, writes, result, calls, plan, asked, apiVars>>
    /\ IF LockOrder(req[p]) = <<>> THEN NoteLocked(p) ELSE UNCHANGED order

\* Mutant: the read takes no row lock (no FOR UPDATE) and never waits.
RowFreeNoWait(id) == TRUE

\* FOR UPDATE: the locking read takes a row only while no other transaction
\* holds its lock.
RowFree(id) == id \notin DOMAIN lockHolder

\* Mutant: the locking read returns the row as it was when the table was
\* set up, not its latest committed version.
LockedBalanceStale(id) == created[id]

\* The balance the locking read returns for a row once it holds the row's
\* lock: the row's latest committed version.
LockedBalance(id) == accounts[id]

\* One iteration of rows.Next()/rows.Scan: the next row is locked (waiting
\* while another transaction holds it) and scanned.
LockRow(p) ==
    /\ pc[p] = "locking"
    /\ LET id == Head(toLock[p]) IN
         /\ RowFree(id)
         /\ lockHolder' = Put(lockHolder, id, p)
         /\ IF id = req[p].src
              THEN /\ sourceAccount' = [sourceAccount EXCEPT ![p] = LockedBalance(id)]
                   /\ foundSource' = [foundSource EXCEPT ![p] = TRUE]
              ELSE UNCHANGED <<sourceAccount, foundSource>>
         /\ IF id = req[p].dst
              THEN foundDest' = [foundDest EXCEPT ![p] = TRUE]
              ELSE UNCHANGED foundDest
    /\ toLock' = [toLock EXCEPT ![p] = Tail(@)]
    /\ pc' = [pc EXCEPT ![p] = IF Tail(toLock[p]) = <<>> THEN "validate" ELSE "locking"]
    /\ UNCHANGED <<accounts, created, req, writes, result, calls, plan, asked, apiVars>>
    /\ IF Held(p) = {} THEN NoteLocked(p) ELSE UNCHANGED order

\* Mutant: the deferred call commits instead of rolling back.
ReturnErrorCommitting(p, err) ==
    /\ pc' = [pc EXCEPT ![p] = "done"]
    /\ result' = [result EXCEPT ![p] = err]
    /\ accounts' = [i \in DOMAIN accounts |-> Current(p, i)]
    /\ writes' = [writes EXCEPT ![p] = EmptyMap]
    /\ toLock' = [toLock EXCEPT ![p] = <<>>]
    /\ lockHolder' = Release(p)
    /\ UNCHANGED <<created, req, sourceAccount, foundSource, foundDest,
                   calls, plan, asked, apiVars>>
    /\ NoteReturned(p)

\* Mutant: no deferred Rollback; the transaction stays open on its pooled
\* connection and keeps its row locks.
ReturnErrorKeepingLocks(p, err) ==
    /\ pc' = [pc EXCEPT ![p] = "done"]
    /\ result' = [result EXCEPT ![p] = err]
    /\ writes' = [writes EXCEPT ![p] = EmptyMap]
    /\ toLock' = [toLock EXCEPT ![p] = <<>>]
    /\ UNCHANGED <<accounts, created, lockHolder, req, sourceAccount, foundSource,
                   foundDest, calls, plan, asked, apiVars>>
    /\ NoteReturned(p)

\* The call returns err without having committed: the deferred tx.Rollback
\* discards the transaction's row versions and releases its locks.
ReturnError(p, err) ==
    /\ pc' = [pc EXCEPT ![p] = "done"]
    /\ result' = [result EXCEPT ![p] = err]
    /\ writes' = [writes EXCEPT ![p] = EmptyMap]
    /\ toLock' = [toLock EXCEPT ![p] = <<>>]
    /\ lockHolder' = Release(p)
    /\ UNCHANGED <<accounts, created, req, sourceAccount, foundSource,
                   foundDest, calls, plan, asked, apiVars>>
    /\ NoteReturned(p)

\* Mutant: the comparison is reversed.
InsufficientFundsReversed(bal, amount) == amount < bal

\* Mutant: less-or-equal instead of less-than.
InsufficientFundsOrEqual(bal, amount) == bal <= amount

\* sourceAccount.Balance.LessThan(req.Amount)
InsufficientFunds(bal, amount) == bal < amount

\* Mutant: the destination is not checked.
NotFoundSourceOnly(p) == ~foundSource[p]

\* !foundSource || !foundDest
NotFound(p) == ~foundSource[p] \/ ~foundDest[p]

\* Mutant: the funds check comes before the existence check.
ValidateFundsFirst(p) ==
    /\ pc[p] = "validate"
    /\ IF InsufficientFunds(sourceAccount[p], req[p].amount)
         THEN ReturnError(p, "ErrInsufficientFunds")
         ELSE IF NotFound(p)
           THEN ReturnError(p, "ErrNotFound")
           ELSE /\ pc' = [pc EXCEPT ![p] = "debit"]
                /\ UNCHANGED <<accounts, created, lockHolder, req, toLock,
                               sourceAccount, foundSource, foundDest, writes,
                               result, calls, plan, asked, apiVars, order>>

\* Mutant: the locking read ran on the pool (s.db.Query), so its row locks
\* ended with the statement, before the checks.
ValidateUnlocked(p) ==
    /\ pc[p] = "validate"
    /\ IF NotFound(p)
         THEN ReturnError(p, "ErrNotFound")
         ELSE IF InsufficientFunds(sourceAccount[p], req[p].amount)
           THEN ReturnError(p, "ErrInsufficientFunds")
           ELSE /\ pc' = [pc EXCEPT ![p] = "debit"]
                /\ lockHolder' = Release(p)
                /\ UNCHANGED <<accounts, created, req, toLock,
                               sourceAccount, foundSource, foundDest, writes,
                               result, calls, plan, asked, apiVars, order>>

\* The existence check and the funds check.
Validate(p) ==
    /\ pc[p] = "validate"
    /\ IF NotFound(p)
         THEN ReturnError(p, "ErrNotFound")
         ELSE IF InsufficientFunds(sourceAccount[p], req[p].amount)
           THEN ReturnError(p, "ErrInsufficientFunds")
           ELSE /\ pc' = [pc EXCEPT ![p] = "debit"]
                /\ UNCHANGED <<accounts, created, lockHolder, req, toLock,
                               sourceAccount, foundSource, foundDest, writes,
                               result, calls, plan, asked, apiVars, order>>

\* The transaction's row versions after UPDATE accounts SET balance =
\* balance + delta WHERE account_id = id: the new balance is rounded to the
\* column's scale; an UPDATE that matches no row changes nothing.
UpdateRow(p, id, delta) ==
    IF id \in DOMAIN accounts
      THEN Put(writes[p], id, RoundToScale(Current(p, id) + delta))
      ELSE writes[p]

\* Mutant: the debit is sent on the pool (s.db.Exec), outside the
\* transaction, and is committed on its own.
DebitOutsideTx(p) ==
    /\ pc[p] = "debit"
    /\ Live(p)
    /\ accounts' = [i \in DOMAIN accounts |->
                      IF i = req[p].src
                        THEN RoundToScale(accounts[i] - req[p].amount)
                        ELSE accounts[i]]
    /\ pc' = [pc EXCEPT ![p] = "credit"]
    /\ UNCHANGED <<created, lockHolder, req, toLock, sourceAccount, foundSource,
                   foundDest, writes, result, calls, plan, asked, apiVars, order>>

\* Mutant: the function returns tx.Commit right after the debit.
DebitThenCommit(p) ==
    /\ pc[p] = "debit"
    /\ Live(p)
    /\ writes' = [writes EXCEPT ![p] = UpdateRow(p, req[p].src, 0 - req[p].amount)]
    /\ pc' = [pc EXCEPT ![p] = "commit"]
    /\ UNCHANGED <<accounts, created, lockHolder, req, toLock, sourceAccount,
                   foundSource, foundDest, result, calls, plan, asked, apiVars, order>>

\* UPDATE accounts SET balance = balance - $1 WHERE account_id = $2
Debit(p) ==
    /\ pc[p] = "debit"
    /\ Live(p)
    /\ writes' = [writes EXCEPT ![p] = UpdateRow(p, req[p].src, 0 - req[p].amount)]
    /\ pc' = [pc EXCEPT ![p] = "credit"]
    /\ UNCHANGED <<accounts, created, lockHolder, req, toLock, sourceAccount,
                   foundSource, foundDest, result, calls, plan, asked, apiVars, order>>

\* UPDATE accounts SET balance = balance + $1 WHERE account_id = $2
Credit(p) ==
    /\ pc[p] = "credit"
    /\ Live(p)
    /\ writes' = [writes EXCEPT ![p] = UpdateRow(p, req[p].dst, req[p].amount)]
    /\ pc' = [pc EXCEPT ![p] = "commit"]
    /\ UNCHANGED <<accounts, created, lockHolder, req, toLock, sourceAccount,
                   foundSource, foundDest, result, calls, plan, asked, apiVars, order>>

\* The table once caller p's transaction has committed.
Committed(p) == [i \in DOMAIN accounts |-> Current(p, i)]

\* Mutant: the deferred rollback restores the table of before the commit.
RollbackAfterCommitUndoing(tbl) == accounts

\* defer tx.Rollback(ctx) running once tx.Commit has succeeded: the
\* transaction is closed and the call changes nothing of the table tbl.
RollbackAfterCommit(tbl) == tbl

\* return tx.Commit(ctx), succeeding, and the deferred Rollback after it.
Commit(p) ==
    /\ pc[p] = "commit"
    /\ Live(p)
    /\ accounts' = RollbackAfterCommit(Committed(p))
    /\ writes' = [writes EXCEPT ![p] = EmptyMap]
    /\ lockHolder' = Release(p)
    /\ pc' = [pc EXCEPT ![p] = "done"]
    /\ result' = [result EXCEPT ![p] = "nil"]
    /\ UNCHANGED <<created, req, toLock, sourceAccount, foundSource,
                   foundDest, calls, plan, asked, apiVars>>
    /\ NoteReturned(p)

\* The locking read fails while it runs (lock timeout, cancelled context):
\* rows.Next() returns false, the loop ends with the rows scanned so far, and
\* rows.Err() is not consulted. The failed transaction keeps its locks until
\* it is rolled back.
LockFault(p) ==
    /\ pc[p] = "locking"
    /\ toLock' = [toLock EXCEPT ![p] = <<>>]
    /\ pc' = [pc EXCEPT ![p] = "validate"]
    /\ UNCHANGED <<accounts, created, lockHolder, req, sourceAccount,
                   foundSource, foundDest, writes, result, calls, plan, asked, apiVars, order>>

\* The statement the caller is at returns an error (connection error,
\* overflow of the column, cancelled context): the call returns it, wrapped.
FaultError(stage) ==
    CASE stage = "begin" -> "could not begin transaction"
      [] stage = "query" -> "could not query accounts for update"
      [] stage = "locking" -> "could not scan account row"
      [] stage = "debit" -> "could not debit source account"
      [] stage = "credit" -> "could not credit destination account"
      [] stage = "commit" -> "commit failed"

StoreFault(p) ==
    /\ pc[p] \in {"begin", "query", "locking", "debit", "credit", "commit"}
    /\ ReturnError(p, FaultError(pc[p]))

\* The caller's context is cancelled, before the call has returned (or has
\* begun) or after it has returned.
Cancel(p) ==
    /\ cancelled[p] = "no"
    /\ cancelled' = [cancelled EXCEPT ![p] = IF Returned(p) THEN "after" ELSE "before"]
    /\ UNCHANGED <<accounts, created, asked, lockHolder, pc, req, toLock,
                   sourceAccount, foundSource, foundDest, writes, result,
                   calls, plan, last, http, txHttp, getResp, wire, creating, boot, order>>

\* What a cancelled context does to the call: the statement the caller is
\* at fails, or the locking read in progress is interrupted.
ContextFault(p) ==
    /\ ~Live(p)
    /\ IF pc[p] = "locking" THEN LockFault(p) ELSE StoreFault(p)

\* One step of caller p inside ExecuteTransfer, the store working.
Step(p) ==
    \/ Begin(p)
    \/ Query(p)
    \/ LockRow(p)
    \/ Validate(p)
    \/ Debit(p)
    \/ Credit(p)
    \/ Commit(p)

Enter(p) == \E r \in plan[p] : Call(p, r)

Next ==
    \/ \E id \in PairIds, b \in InitBalances : CreateAccount(id, b)
    \/ \E p \in Procs : Enter(p)
    \/ \E p \in Procs : Step(p)
    \/ \E p \in Procs : StoreFault(p)
    \/ \E p \in Procs : LockFault(p)

Spec == Init /\ [][Next]_vars

\* The callers alone, the store working.
NextRun ==
    \/ \E p \in Procs : Enter(p)
    \/ \E p \in Procs : Step(p)

\* Every caller that can take a step eventually takes one (each runs on its
\* own goroutine; a released row lock is granted to a waiting transaction).
Fairness == \A p \in Procs : WF_vars(Enter(p)) /\ WF_vars(Step(p))

SpecSolo == InitSolo /\ [][NextRun]_vars

\* The store scenario: the client's calls and caller 1's transfer, any
\* statement of which may fail.
NextStore ==
    \/ \E id \in PairIds, b \in StoreBalances : CreateAccountCall(id, b)
    \/ \E id \in ReadIds : GetAccount(id)
    \/ \E p \in Procs : Enter(p)
    \/ \E p \in Procs : Step(p)
    \/ \E p \in Procs : StoreFault(p)
    \/ \E p \in Procs : LockFault(p)

SpecStore == InitStore /\ [][NextStore]_vars

\* The isolation scenario: the transfers and the client's reads.
NextIsolation ==
    \/ \E id \in PairIds : GetAccount(id)
    \/ \E p \in Procs : Enter(p)
    \/ \E p \in Procs : Step(p)

SpecIsolation == InitIsolation /\ [][NextIsolation]_vars

\* The HTTP scenario: the steps of the handlers, run concurrently.
NextHttp ==
    \/ \E h \in Handlers, body \in HttpBodies : PostAccounts(h, body)
    \/ \E h \in Handlers : CheckExisting(h)
    \/ \E h \in Handlers : CreateAndRespond(h)
    \/ \E h \in Handlers : HandlerStoreFault(h)

SpecHttp == InitHttp /\ [][NextHttp]_vars

\* The POST /transactions scenario: the handlers and the transfers they
\* start, any statement of which may fail.
NextTx ==
    \/ \E p \in TxHandlers, body \in TxBodies : PostTransactions(p, body)
    \/ \E p \in TxHandlers : Step(p)
    \/ \E p \in TxHandlers : StoreFault(p)
    \/ \E p \in TxHandlers : LockFault(p)
    \/ \E p \in TxHandlers : TransactionResponse(p)

SpecTx == InitTx /\ [][NextTx]_vars

\* The bodies POSTed to /accounts in the API scenario: a negative, a
\* sub-scale and a whole initial_balance.
ApiBodies == [ok : {TRUE}, id : PairIds, balance : {0 - Unit, Half, Unit}]

\* The bodies POSTed to /transactions in the API scenario: a negative, a
\* zero, a sub-scale and a whole amount.
ApiTxBodies ==
    [ok : {TRUE}, src : PairIds, dst : PairIds, amount : {0 - Unit, 0, Half, Unit}]

\* The API scenario: requests come in through the two handlers only.
NextApi ==
    \/ \E h \in Handlers, body \in ApiBodies : PostAccounts(h, body)
    \/ \E h \in Handlers : CheckExisting(h)
    \/ \E h \in Handlers : CreateAndRespond(h)
    \/ \E p \in TxHandlers, body \in ApiTxBodies : PostTransactions(p, body)
    \/ \E p \in TxHandlers : Step(p)
    \/ \E p \in TxHandlers : TransactionResponse(p)

SpecApi == InitApi /\ [][NextApi]_vars

\* The GET scenario: accounts 1 and 2 created at any time and GET requests
\* for any of IdPaths, the store answering or failing.
NextGet ==
    \/ \E id \in PairIds, b \in StoreBalances : CreateAccount(id, b)
    \/ \E path \in IdPaths : GetAccountHandler(path)
    \/ \E path \in IdPaths : GetHandlerFault(path)

SpecGet == InitStore /\ [][NextGet]_vars

\* The JSON scenario: values marshalled and unmarshalled back, and objects
\* with any of AmountTokens as amount unmarshalled.
NextJson ==
    \/ \E v \in ModelValues : MarshalValue(v)
    \/ UnmarshalBack
    \/ \E v \in {w \in ModelValues : w.amount = ZeroDecimal}, tok \in AmountTokens :
          UnmarshalAmount(v, tok)

InitJson == InitStore

SpecJson == InitJson /\ [][NextJson]_vars

\* The cancellation scenario: the caller's steps and its context.
NextCancel ==
    \/ \E p \in Procs : Enter(p)
    \/ \E p \in Procs : Step(p)
    \/ \E p \in Procs : Cancel(p)
    \/ \E p \in Procs : ContextFault(p)

SpecCancel == InitCancel /\ [][NextCancel]_vars

SpecReverse == InitReverse /\ [][NextRun]_vars

SpecCycle == InitCycle /\ [][NextRun]_vars /\ Fairness

SpecPingPong == InitPingPong /\ [][NextRun]_vars

SpecAny == InitAny /\ [][NextRun]_vars /\ Fairness

SpecSerial == InitSerial /\ [][NextRun]_vars

----------------------------------------------------------------------------
\* C1: the committed balances of the existing accounts always add up to the
\* balances those accounts were created with.
C1_Conservation == Sum(accounts) = Sum(created)

C4_LockOrdering ==
    \A p \in Procs : \A h \in Held(p) : \A k \in 1 .. Len(toLock[p]) :
        h < toLock[p][k]

\* A transfer from the larger id to the smaller holds the smaller id's lock
\* and waits for the larger id's, which another transfer holds.
C4_Witness ==
    \E p \in Procs :
        /\ req[p].src > req[p].dst
        /\ req[p].dst \in Held(p)
        /\ toLock[p] = <<req[p].src>>
        /\ ~RowFree(req[p].src)

\* Caller p waits for a row lock that caller q holds.
WaitsFor(p, q) ==
    /\ p # q
    /\ pc[p] = "locking"
    /\ Head(toLock[p]) \in Held(q)

\* A set of callers each waiting for a row lock held by another in the set.
CircularWait ==
    \E S \in SUBSET Procs :
        /\ S # {}
        /\ \A p \in S : \E q \in S : WaitsFor(p, q)

AllFinished ==
    \A p \in Procs : Returned(p) /\ calls[p] = 0

\* C3: with the legs 1->2, 2->3, 3->4, 4->1 run concurrently and repeatedly on
\* funded accounts, no set of transfers ever waits in a circle, no call
\* returns an error, and every call eventually returns.
C3_DeadlockFreedom ==
    /\ [](~CircularWait)
    /\ [](\A p \in Procs : result[p] \in {"none", "nil"})
    /\ <>AllFinished

\* Three of the four legs wait at once: 1->2 for row 1 held by 4->1, 4->1 for
\* row 4 and 2->3 for row 3, both held by 3->4.
C3_Witness ==
    /\ WaitsFor(1, 4)
    /\ WaitsFor(4, 3)
    /\ WaitsFor(2, 3)

\* C5: once two transfers of a from account 1 to account 2 and two of a from
\* 2 to 1 have all returned, all four returned nil and both balances are what
\* they were at the start.
C5_NoLostUpdate ==
    AllFinished =>
        /\ \A p \in Procs : result[p] = "nil"
        /\ accounts = created

Src(p) == req[p].src
Dst(p) == req[p].dst

\* C6: from its funds check to its commit a transfer's source row still
\* holds, committed, the balance the locking read returned, and that balance
\* covers the amount; a call that returned ErrInsufficientFunds had read,
\* under the lock, a balance smaller than its amount.
C6_FundsCheckUnderLock ==
    \A p \in Procs :
        /\ (pc[p] \in {"validate", "debit", "credit", "commit"} /\ foundSource[p])
              => sourceAccount[p] = accounts[Src(p)]
        /\ pc[p] \in {"debit", "credit", "commit"}
              => req[p].amount <= accounts[Src(p)]
        /\ (Returned(p) /\ result[p] = "ErrInsufficientFunds")
              => sourceAccount[p] < req[p].amount

\* Two transfers debit the same source, whose balance covers either but not
\* both: one is about to commit its debit, the other waits for the row.
C6_Witness ==
    \E p, q \in Procs :
        /\ Src(p) = Src(q)
        /\ Src(p) # Dst(p)
        /\ pc[p] = "commit"
        /\ WaitsFor(q, p)
        /\ Head(toLock[q]) = Src(q)
        /\ req[p].amount > 0
        /\ req[q].amount <= accounts[Src(q)]
        /\ Current(p, Src(q)) < req[q].amount

\* C7: a transfer between distinct existing accounts whose source holds at
\* least the amount, run alone, returns nil, has moved exactly the amount
\* from source to destination and has left the other accounts as they were.
C7_SuccessfulTransfer ==
    \A p \in Procs :
        (/\ Returned(p)
         /\ Src(p) # Dst(p)
         /\ {Src(p), Dst(p)} \subseteq DOMAIN created
         /\ created[Src(p)] >= req[p].amount)
        => /\ result[p] = "nil"
           /\ accounts[Src(p)] = created[Src(p)] - req[p].amount
           /\ accounts[Dst(p)] = created[Dst(p)] + req[p].amount
           /\ \A i \in DOMAIN accounts \ {Src(p), Dst(p)} : accounts[i] = created[i]

\* Both rows found and the source balance read under the lock smaller than
\* the amount.
Short(p) ==
    /\ foundSource[p]
    /\ foundDest[p]
    /\ sourceAccount[p] < req[p].amount

\* C8: a transfer that found both its accounts (which may be one account) and
\* read a source balance smaller than the amount never gets past the funds
\* check: it returns ErrInsufficientFunds from it with no update executed and
\* the table unchanged.
C8_InsufficientFunds ==
    /\ [](\A p \in Procs :
            Short(p) => /\ pc[p] \in {"validate", "done"}
                        /\ writes[p] = EmptyMap
                        /\ Returned(p) => result[p] = "ErrInsufficientFunds")
    /\ [][\A p \in Procs :
            (Short(p) /\ pc[p] = "validate" /\ pc'[p] # "validate")
                => /\ Returned(p)'
                   /\ result'[p] = "ErrInsufficientFunds"
                   /\ accounts' = accounts]_vars

\* A self-transfer has returned ErrInsufficientFunds.
C8_Witness ==
    \E p \in Procs :
        /\ Returned(p)
        /\ result[p] = "ErrInsufficientFunds"
        /\ Src(p) = Dst(p)
        /\ Short(p)

\* C9: run alone, a transfer returns ErrNotFound exactly when its source, its
\* destination or both have no row, and then no balance has changed.
C9_AccountNotFound ==
    \A p \in Procs :
        Returned(p) =>
            /\ result[p] = "ErrNotFound"
                 <=> ~({Src(p), Dst(p)} \subseteq DOMAIN created)
            /\ result[p] = "ErrNotFound" => accounts = created

\* The source exists, the destination does not, the amount exceeds nothing:
\* ErrNotFound.
C9_Witness ==
    \E p \in Procs :
        /\ Returned(p)
        /\ result[p] = "ErrNotFound"
        /\ Src(p) \in DOMAIN created
        /\ Dst(p) \notin DOMAIN created
        /\ req[p].amount <= created[Src(p)]

C11_IdempotentCreation ==
    [][(/\ last' # last
        /\ last'.op = "CreateAccount"
        /\ last'.id \in DOMAIN accounts)
          => (/\ last'.err = "nil"
              /\ accounts' = accounts)]_vars

\* CreateAccount has just returned for an account that a committed transfer
\* has changed, passing a balance that is neither the one the account was
\* created with nor the one it holds.
C11_Witness ==
    /\ last.op = "CreateAccount"
    /\ last.id \in DOMAIN accounts
    /\ accounts[last.id] # created[last.id]
    /\ RoundToScale(last.arg) \notin {accounts[last.id], created[last.id]}

\* C12: a transfer from an account to itself of an amount not above its
\* balance, nothing else running, returns nil and leaves that balance and
\* every other balance as they were.
C12_SelfTransfer ==
    \A p \in Procs :
        (/\ Returned(p)
         /\ req[p].src = req[p].dst
         /\ req[p].src \in DOMAIN created
         /\ req[p].amount <= created[req[p].src])
            => (result[p] = "nil" /\ accounts = created)

\* The table after a transfer of r.amount from r.src to r.dst.
Transferred(tbl, r) ==
    IF r.src = r.dst THEN tbl
    ELSE [i \in DOMAIN tbl |->
            IF i = r.src THEN tbl[i] - r.amount
            ELSE IF i = r.dst THEN tbl[i] + r.amount
            ELSE tbl[i]]

DebitedAndCredited(tbl, r) ==
    LET debited == [tbl EXCEPT ![r.src] = RoundToScale(@ - r.amount)]
    IN  [debited EXCEPT ![r.dst] = RoundToScale(@ + r.amount)]

\* C14: no operation observes an intermediate state of a transfer. A
\* GetAccount returns the account's committed balance; the locking read of a
\* transfer returns the committed balance of a row no other transaction has
\* an uncommitted update of; and the committed table changes only on the
\* commit step of a transfer, the debit and the credit appearing together.
C14_Isolation ==
    [][/\ (last' # last /\ last'.op = "GetAccount" /\ last'.err = "nil")
            => last'.balance = accounts[last'.id]
       /\ \A p \in Procs :
            (pc[p] = "locking" /\ foundSource'[p] /\ ~foundSource[p])
                => /\ sourceAccount'[p] = accounts[req[p].src]
                   /\ \A q \in Procs \ {p} : req[p].src \notin DOMAIN writes[q]
       /\ accounts' # accounts
            => \E p \in Procs :
                 /\ pc[p] = "commit"
                 /\ result'[p] = "nil"
                 /\ accounts' = DebitedAndCredited(accounts, req[p])]_vars

\* A GetAccount of an account returned its committed balance while a
\* transfer holds an uncommitted, different balance for it.
C14_Witness ==
    /\ last.op = "GetAccount"
    /\ last.err = "nil"
    /\ last.balance = accounts[last.id]
    /\ \E p \in Procs :
         /\ last.id \in DOMAIN writes[p]
         /\ writes[p][last.id] # accounts[last.id]
         /\ pc[p] = "commit"

\* C15: on the step on which a call returns, its transaction is over: no
\* uncommitted row version and no row lock of it remains; when it returns an
\* error the table is as it was, every statement executed inside the
\* transaction being discarded, and when it returns nil the table holds the
\* row versions the transaction wrote, the deferred rollback undoing nothing.
C15_TransactionBoundary ==
    [][\A p \in Procs :
         (~Returned(p) /\ Returned(p)')
            => /\ writes'[p] = EmptyMap
               /\ \A i \in DOMAIN lockHolder' : lockHolder'[i] # p
               /\ IF result'[p] = "nil"
                    THEN accounts' = [i \in DOMAIN accounts |->
                                        IF i \in DOMAIN writes[p]
                                          THEN writes[p][i] ELSE accounts[i]]
                    ELSE accounts' = accounts]_vars

\* A call has committed a transfer that changed both balances, and another
\* call's commit has failed after its debit and credit were executed.
C15_Witness ==
    /\ \E p \in Procs :
         /\ Returned(p)
         /\ result[p] = "nil"
         /\ accounts # created
    /\ \E p \in Procs :
         /\ Returned(p)
         /\ result[p] = "commit failed"
         /\ req[p].amount # 0

\* C16: a transfer of amount zero between two existing accounts, the source
\* not holding a negative balance and nothing else running, returns nil and
\* leaves both balances (and every other) as they were.
C16_ZeroAmount ==
    \A p \in Procs :
        (/\ Returned(p)
         /\ req[p].amount = 0
         /\ {req[p].src, req[p].dst} \subseteq DOMAIN created
         /\ created[req[p].src] >= 0)
            => (result[p] = "nil" /\ accounts = created)

\* A transfer of zero from an account holding zero to another account has
\* returned nil.
C16_Witness ==
    \E p \in Procs :
        /\ Returned(p)
        /\ req[p].amount = 0
        /\ req[p].src # req[p].dst
        /\ {req[p].src, req[p].dst} \subseteq DOMAIN created
        /\ created[req[p].src] = 0
        /\ result[p] = "nil"

\* C17: a transfer with a negative amount between two different existing
\* accounts, nothing else running, returns nil and has moved |amount| from
\* the destination to the source: the source holds its old balance plus
\* |amount|, the destination its old balance minus |amount|.
C17_NegativeAmount ==
    \A p \in Procs :
        (/\ Returned(p)
         /\ req[p].amount < 0
         /\ req[p].src # req[p].dst
         /\ {req[p].src, req[p].dst} \subseteq DOMAIN created)
            => /\ result[p] = "nil"
               /\ accounts = Transferred(created, req[p])

\* C18: a GetAccount of an account that no transfer has changed returns that
\* id with the balance passed to the CreateAccount call that inserted it, and
\* a GetAccount of an id that has no account (0 and -1, which never get one,
\* included) returns ErrNotFound.
C18_CreateRead ==
    [][(last' # last /\ last'.op = "GetAccount")
         => IF last'.id \in DOMAIN accounts
              THEN accounts[last'.id] = created[last'.id]
                     => (last'.err = "nil" /\ last'.balance = asked[last'.id])
              ELSE last'.err = "ErrNotFound"]_vars

\* C19: an account that exists keeps existing, and the committed balance of
\* an existing account changes only on the step on which a transfer naming
\* it as source or destination commits and returns nil; a CreateAccount or
\* GetAccount call and a transfer returning an error change no existing
\* balance.
C19_AccountLifecycle ==
    [][/\ DOMAIN accounts \subseteq DOMAIN accounts'
       /\ \A i \in DOMAIN accounts :
            accounts'[i] # accounts[i]
                => \E p \in Procs :
                     /\ pc[p] = "commit"
                     /\ Returned(p)'
                     /\ result'[p] = "nil"
                     /\ i \in {req[p].src, req[p].dst}
       /\ ((last' # last) \/ (\E p \in Procs :
                                ~Returned(p) /\ Returned(p)' /\ result'[p] # "nil"))
            => \A i \in DOMAIN accounts : accounts'[i] = accounts[i]]_vars

\* A committed transfer has changed both of its accounts, and the client has
\* since read the source and passed CreateAccount another balance for it.
C19_Witness ==
    \E p \in Procs :
        /\ Returned(p)
        /\ result[p] = "nil"
        /\ accounts[req[p].src] # created[req[p].src]
        /\ accounts[req[p].dst] # created[req[p].dst]
        /\ last.op = "CreateAccount"
        /\ last.id = req[p].src
        /\ RoundToScale(last.arg) # accounts[last.id]

\* C20: a POST /accounts answered 201 or 200 is answered 201 exactly when
\* the account had no row and this request's CreateAccount inserted it, and
\* 200 exactly when the row was already there; so of the requests for one
\* absent id, handled concurrently or not, exactly one is answered 201.
C20_CreateStatus ==
    \A h \in Handlers :
        http[h].status \in {200, 201}
            => (http[h].status = 201 <=> http[h].inserted)

\* C21: a POST /transactions whose source and destination are equal or whose
\* amount is zero or negative is answered 400 without ExecuteTransfer being
\* called, and every transfer the handlers have started is between two
\* different accounts and of a positive amount.
C21_RequestValidation ==
    \A p \in TxHandlers :
        /\ (/\ txHttp[p].pc # "idle"
            /\ (txHttp[p].body.src = txHttp[p].body.dst \/ txHttp[p].body.amount <= 0))
              => /\ txHttp[p].pc = "done"
                 /\ txHttp[p].status = 400
                 /\ txHttp[p].executed = 0
                 /\ pc[p] = "idle"
        /\ pc[p] # "idle" => (req[p].src # req[p].dst /\ req[p].amount > 0)

\* One request with equal ids and a positive amount and one with different
\* ids and amount zero have been answered.
C21_Witness ==
    \E p, q \in TxHandlers :
        /\ txHttp[p].pc = "done"
        /\ txHttp[p].body.ok
        /\ txHttp[p].body.src = txHttp[p].body.dst
        /\ txHttp[p].body.amount > 0
        /\ txHttp[q].pc = "done"
        /\ txHttp[q].body.ok
        /\ txHttp[q].body.src # txHttp[q].body.dst
        /\ txHttp[q].body.amount = 0

\* C22: a POST /transactions with different ids and a positive amount calls
\* ExecuteTransfer once; once answered, the status is 200 exactly when the
\* call returned nil, 422 'Insufficient funds' for ErrInsufficientFunds, 404
\* 'One or both accounts not found' for ErrNotFound, 500 for any other error.
C22_OutcomeMapping ==
    \A p \in TxHandlers :
        (/\ txHttp[p].body.ok
         /\ txHttp[p].body.src # txHttp[p].body.dst
         /\ txHttp[p].body.amount > 0)
            => /\ txHttp[p].executed = 1
               /\ txHttp[p].pc = "done"
                    => /\ Returned(p)
                       /\ txHttp[p].status = 200 <=> result[p] = "nil"
                       /\ result[p] = "ErrInsufficientFunds"
                            => /\ txHttp[p].status = 422
                               /\ txHttp[p].message = "Insufficient funds"
                       /\ result[p] = "ErrNotFound"
                            => /\ txHttp[p].status = 404
                               /\ txHttp[p].message = "One or both accounts not found"
                       /\ result[p] \notin {"nil", "ErrInsufficientFunds", "ErrNotFound"}
                            => txHttp[p].status = 500

\* One request has been answered 404 and another 500 after its commit failed.
C22_Witness ==
    \E p, q \in TxHandlers :
        /\ txHttp[p].pc = "done"
        /\ txHttp[p].status = 404
        /\ txHttp[q].pc = "done"
        /\ txHttp[q].status = 500
        /\ result[q] = "commit failed"

\* The path variables that are no 64-bit integer.
NotInt64 ==
    {NoPath} \cup
    [present : {TRUE},
     id : {<<>>, <<"a">>, <<"1", "a">>, <<"-">>, <<"1", ".", "5">>,
           MaxInt64 \o <<"0">>,
           SubSeq(MaxInt64, 1, 18) \o <<"8">>,
           <<"-">> \o SubSeq(MaxInt64, 1, 18) \o <<"9">>}]

\* The integer each of the other path variables denotes.
IdRequested(path) ==
    CASE path.id = <<"1">> -> 1
      [] path.id = <<"2">> -> 2
      [] path.id = <<"3">> -> 3
      [] path.id = <<"0">> -> 0
      [] path.id = <<"-", "1">> -> 0 - 1
      [] path.id = <<"+", "2">> -> 2
      [] path.id = <<"0", "1">> -> 1

\* C23: every response of GET /accounts/{account_id}: when the id is no
\* 64-bit integer the store is not called and the status is 400; otherwise
\* the store is called and the status is 200 with the id requested and the
\* account's committed balance when it returned the account, 404 when it
\* returned ErrNotFound, 500 on any other error.
C23_GetAccountStatus ==
    [][getResp' # getResp =>
         IF getResp'.path \in NotInt64
           THEN getResp'.status = 400 /\ ~getResp'.called
           ELSE /\ getResp'.called
                /\ getResp'.err = "nil"
                     => /\ getResp'.status = 200
                        /\ getResp'.id = IdRequested(getResp'.path)
                        /\ getResp'.id \in DOMAIN accounts
                        /\ getResp'.balance = accounts[getResp'.id]
                /\ getResp'.err = "ErrNotFound"
                     => getResp'.status = 404 /\ getResp'.id \notin DOMAIN accounts
                /\ getResp'.err \notin {"nil", "ErrNotFound"}
                     => getResp'.status = 500]_vars

\* GET /accounts/01 has been answered 200 with account 1, whose balance is
\* negative.
C23_Witness ==
    /\ getResp.path = [present |-> TRUE, id |-> <<"0", "1">>]
    /\ getResp.status = 200
    /\ getResp.id = 1
    /\ getResp.balance < 0

\* The amount members that are not decimals.
NotDecimal ==
    [kind : {"string"},
     text : {<<"n", "o", "t", "-", "a", "-", "n", "u", "m", "b", "e", "r">>,
             <<"a", "b", "c">>, <<>>, <<"1", ".", "2", ".", "3">>, <<"-">>,
             <<"1", "0", "0", " ">>}]
    \cup {[kind |-> "true", text |-> <<"t", "r", "u", "e">>],
          [kind |-> "null", text |-> <<"n", "u", "l", "l">>]}

\* What was marshalled carries its amount as a JSON string, and what was
\* unmarshalled back has the ids of the original and an amount numerically
\* equal to the original's.
RoundTrip ==
    /\ wire.stage \in {"marshalled", "unmarshalled"}
          => wire.json[AmountField(wire.value.type)].kind = "string"
    /\ wire.stage = "unmarshalled"
          => /\ wire.out.err = "nil"
             /\ wire.out.v.type = wire.value.type
             /\ wire.out.v.ids = wire.value.ids
             /\ Equal(wire.out.v.amount, wire.value.amount)

\* C24 as stated: the round trip holds, and unmarshalling an amount member
\* that is not a decimal fails with an error.
C24_Original ==
    /\ RoundTrip
    /\ (wire.stage = "decoded" /\ wire.json[AmountField(wire.value.type)] \in NotDecimal)
          => wire.out.err # "nil"

\* C24: the round trip holds; unmarshalling an amount member that is not a
\* decimal fails with an error unless the member is null, which is accepted
\* and leaves the amount zero.
C24_JsonRoundTrip ==
    /\ RoundTrip
    /\ (wire.stage = "decoded" /\ wire.json[AmountField(wire.value.type)] \in NotDecimal)
          => IF wire.json[AmountField(wire.value.type)].kind = "null"
               THEN wire.out.err = "nil" /\ wire.out.v.amount = ZeroDecimal
               ELSE wire.out.err # "nil"

\* A TransactionRequest of amount -0.10, written "-0.1", has been
\* unmarshalled back.
C24_Witness ==
    /\ wire.stage = "unmarshalled"
    /\ wire.value.type = "TransactionRequest"
    /\ wire.value.amount = [coef |-> 0 - 10, exp |-> 0 - 2]
    /\ wire.json["amount"].text = <<"-", "0", ".", "1">>
    /\ wire.out.v.amount = [coef |-> 0 - 1, exp |-> 0 - 1]

\* Where caller p's call stands: started until its locking read has ended,
\* locked until the checks have passed, validated until both updates have
\* been executed, applied until the commit, then committed or aborted.
Stage(place, outcome) ==
    CASE place \in {"begin", "query", "locking"} -> "started"
      [] place = "validate" -> "locked"
      [] place \in {"debit", "credit"} -> "validated"
      [] place = "commit" -> "applied"
      [] place = "done" -> IF outcome = "nil" THEN "committed" ELSE "aborted"
      [] OTHER -> "none"

StageOrder == <<"started", "locked", "validated", "applied", "committed">>

FollowsStage(a, b) == \E k \in 1 .. 4 : StageOrder[k] = a /\ StageOrder[k + 1] = b

\* C25: every call moves started -> locked -> validated -> applied ->
\* committed, one stage at a time, or to aborted from any stage before
\* committed; the debit is executed only after both rows were found and the
\* balance read is not below the amount, the credit only after the debit, the
\* commit only after both updates; and a call that has returned keeps its
\* outcome until the caller's next call starts.
C25_TransferStateMachine ==
    [][\A p \in Procs :
         LET was == Stage(pc[p], result[p])
             now == Stage(pc'[p], result'[p])
         IN  /\ now # was =>
                   \/ FollowsStage(was, now)
                   \/ was \in {"started", "locked", "validated", "applied"}
                        /\ now = "aborted"
                   \/ was \in {"none", "committed", "aborted"} /\ now = "started"
             /\ (pc[p] = "debit" /\ pc'[p] # "debit" /\ now # "aborted") =>
                   /\ pc'[p] = "credit"
                   /\ foundSource[p] /\ foundDest[p]
                   /\ sourceAccount[p] >= req[p].amount
                   /\ req[p].src \in DOMAIN writes'[p]
             /\ (pc[p] = "credit" /\ pc'[p] # "credit" /\ now # "aborted") =>
                   /\ pc'[p] = "commit"
                   /\ req[p].src \in DOMAIN writes[p]
                   /\ req[p].dst \in DOMAIN writes'[p]
             /\ now = "applied" => {req[p].src, req[p].dst} \subseteq DOMAIN writes'[p]
             /\ (was # "committed" /\ now = "committed") =>
                   /\ was = "applied"
                   /\ {req[p].src, req[p].dst} \subseteq DOMAIN writes[p]
             /\ writes'[p] # writes[p] =>
                   pc[p] \in {"debit", "credit"} \/ pc'[p] = "done"
             /\ (pc[p] = "done" /\ pc'[p] = "done") => result'[p] = result[p]
    ]_vars

\* A transfer between two different accounts has executed both updates and
\* is about to commit.
C25_Witness ==
    /\ pc[1] = "commit"
    /\ req[1].src # req[1].dst
    /\ req[1].amount > 0
    /\ DOMAIN writes[1] = {req[1].src, req[1].dst}

\* Caller p's transaction is open and its locking read has returned row i.
Scanned(p, i) ==
    /\ pc[p] \in {"locking", "validate", "debit", "credit", "commit"}
    /\ \/ i = req[p].src /\ foundSource[p]
       \/ i = req[p].dst /\ foundDest[p]

\* C26: no row has been returned by the locking reads of two open
\* transactions; an open transaction holds the lock of every row its locking
\* read returned, of both its rows from the passed checks on, and has
\* versions only of rows it holds; a lock is kept until the call returns, and
\* while a caller holds a row's lock no other caller locks the row or makes a
\* version of it, and its committed balance changes only by the holder's
\* commit.
C26_RowLocks ==
    /\ [](\A p \in Procs :
            /\ \A q \in Procs \ {p} : \A i \in Ids : ~(Scanned(p, i) /\ Scanned(q, i))
            /\ \A i \in Ids : Scanned(p, i) => i \in Held(p)
            /\ pc[p] \in {"debit", "credit", "commit"}
                  => /\ {req[p].src, req[p].dst} \subseteq DOMAIN accounts
                     /\ {req[p].src, req[p].dst} \subseteq Held(p)
            /\ DOMAIN writes[p] \subseteq Held(p))
    /\ [][\A p \in Procs : \A i \in Held(p) :
            /\ pc'[p] # "done" => lockHolder'[i] = p
            /\ i \in DOMAIN lockHolder' => lockHolder'[i] = p
            /\ \A q \in Procs \ {p} : i \notin DOMAIN writes'[q]
            /\ accounts'[i] # accounts[i] => pc[p] = "commit" /\ pc'[p] = "done"
       ]_vars

\* Caller 1 holds both rows and has debited; caller 2 wants the same rows
\* and waits for the first of them.
C26_Witness ==
    /\ pc[1] = "credit"
    /\ Held(1) = {1, 2}
    /\ pc[2] = "locking"
    /\ Head(toLock[2]) \in Held(1)
    /\ Held(2) = {}

\* C27: a caller whose call has returned, or has not begun its locking
\* read, holds no row lock; and the step by which a call returns leaves the
\* row free that any transfer was waiting for it to release.
C27_LockRelease ==
    /\ [](\A p \in Procs :
            pc[p] \in {"idle", "done", "begin", "query"} => Held(p) = {})
    /\ [][\A p \in Procs :
            (~Returned(p) /\ Returned(p)') =>
                \A q \in Procs \ {p} :
                    WaitsFor(q, p) =>
                        /\ pc'[q] = "locking"
                        /\ Head(toLock'[q]) \notin DOMAIN lockHolder'
       ]_vars

\* Caller 1 has returned ErrInsufficientFunds from a transfer over the two
\* rows caller 2 is about to lock, and the row caller 2 asks for is free.
C27_Witness ==
    /\ Returned(1)
    /\ result[1] = "ErrInsufficientFunds"
    /\ Held(1) = {}
    /\ pc[2] = "locking"
    /\ Head(toLock[2]) \in {req[1].src, req[1].dst}
    /\ RowFree(Head(toLock[2]))

\* Caller p is inside a call and can take no step.
Blocked(p) == pc[p] \notin {"idle", "done"} /\ ~ENABLED Step(p)

\* C28: with three concurrent transfers over any pairs of three accounts, no
\* set of transfers ever waits in a circle, a blocked transfer is waiting in
\* its locking read for one of its two rows, whose lock another open
\* transaction holds, and every call eventually returns.
C28_GeneralProgress ==
    /\ [](~CircularWait)
    /\ [](\A p \in Procs :
            Blocked(p) =>
                /\ pc[p] = "locking"
                /\ Head(toLock[p]) \in {req[p].src, req[p].dst}
                /\ \E q \in Procs \ {p} :
                      /\ WaitsFor(p, q)
                      /\ pc[q] \in {"locking", "validate", "debit", "credit", "commit"})
    /\ <>(\A p \in Procs : calls[p] = 0 /\ pc[p] \in {"idle", "done"})

\* A chain: caller 1, on a reversed pair, waits for a row of caller 2, which
\* waits for the row caller 3 holds for a transfer from an account to
\* itself.
C28_Witness ==
    /\ WaitsFor(1, 2)
    /\ WaitsFor(2, 3)
    /\ req[1].src > req[1].dst
    /\ req[3].src = req[3].dst
    /\ Blocked(1) /\ Blocked(2) /\ ~Blocked(3)

\* ExecuteTransfer(r) run on the table tbl with nothing else running: the
\* error returned and the table left.
Alone(tbl, r) ==
    IF r.src \notin DOMAIN tbl \/ r.dst \notin DOMAIN tbl
      THEN [err |-> "ErrNotFound", tbl |-> tbl]
    ELSE IF tbl[r.src] < r.amount
      THEN [err |-> "ErrInsufficientFunds", tbl |-> tbl]
    ELSE LET debited == [tbl EXCEPT ![r.src] = RoundToScale(@ - r.amount)]
         IN  [err |-> "nil",
              tbl |-> [debited EXCEPT ![r.dst] = RoundToScale(@ + r.amount)]]

\* The calls of the callers in ps, in that order, run one at a time from the
\* table tbl: the errors returned so far (out) and the table left.
RECURSIVE OneAtATime(_, _, _)
OneAtATime(ps, tbl, out) ==
    IF ps = <<>> THEN [out |-> out, tbl |-> tbl]
    ELSE LET run == Alone(tbl, req[Head(ps)])
         IN  OneAtATime(Tail(ps), run.tbl, Put(out, Head(ps), run.err))

\* Every call has returned, and run one at a time in the order ps from the
\* initial table the calls return what they returned and leave the table
\* that is there.
SameAs(ps) ==
    LET serial == OneAtATime(ps, created, EmptyMap)
    IN  /\ serial.tbl = accounts
        /\ \A p \in SerialCallers : serial.out[p] = result[p]

AllReturned == \A p \in SerialCallers : Returned(p)

\* C29 as stated: once all calls have returned, their outcomes and the final
\* balances are those of the calls run one at a time in the order of their
\* first row locks, and in the order in which they committed or aborted.
C29_Original ==
    AllReturned => SameAs(order.locked) /\ SameAs(order.returned)

\* C29: once all calls have returned, their outcomes and the final balances
\* are those of the calls run one at a time in the order in which the calls
\* returned (committed or rolled back).
C29_Serializability ==
    AllReturned => SameAs(order.returned)

\* All three calls have returned, one of them ErrInsufficientFunds after
\* having taken its first lock before a transfer that committed first.
C29_Witness ==
    /\ AllReturned
    /\ \E p, q \in SerialCallers :
          /\ result[p] = "ErrInsufficientFunds"
          /\ result[q] = "nil"
          /\ \E i, j \in 1 .. 3 :
                /\ i < j
                /\ order.locked[i] = p /\ order.locked[j] = q
                /\ \E k, m \in 1 .. 3 :
                      k < m /\ order.returned[k] = q /\ order.returned[m] = p

\* C30: with accounts created and transfers submitted through the handlers
\* only, every committed balance is at least zero.
C30_NonNegativeBalances ==
    \A i \in DOMAIN accounts : accounts[i] >= 0

\* Both accounts were created through the handler (201 twice) and a transfer
\* answered 200 has left its source account at zero.
C30_Witness ==
    /\ \A h \in Handlers : http[h].pc = "done" /\ http[h].status = 201
    /\ \E p \in TxHandlers :
          /\ txHttp[p].pc = "done"
          /\ txHttp[p].status = 200
          /\ accounts[req[p].src] = 0
          /\ accounts[req[p].dst] > 0

\* C31: the step on which a transfer between two different accounts commits
\* lowers the stored source balance by exactly the amount and raises the
\* stored destination balance by exactly the amount.
C31_NoRounding ==
    [][\A p \in Procs :
            (pc[p] = "commit" /\ pc'[p] = "done" /\ result'[p] = "nil"
                /\ req[p].src # req[p].dst)
            => /\ accounts[req[p].src] - accounts'[req[p].src] = req[p].amount
               /\ accounts'[req[p].dst] - accounts[req[p].dst] = req[p].amount
    ]_vars

\* C32: a call that leaves its checks without both rows found returns
\* ErrNotFound, whatever the amount; a call returns ErrInsufficientFunds only
\* with both rows found and locked and the balance read below the amount; and
\* no call returns ErrInsufficientFunds while its source or its destination
\* has no row.
C32_CheckPrecedence ==
    [][\A p \in Procs :
         /\ (pc[p] = "validate" /\ pc'[p] # "validate"
                /\ ~(foundSource[p] /\ foundDest[p]))
              => result'[p] = "ErrNotFound"
         /\ (~Returned(p) /\ Returned(p)' /\ result'[p] = "ErrInsufficientFunds")
              => /\ pc[p] = "validate"
                 /\ foundSource[p] /\ foundDest[p]
                 /\ {req[p].src, req[p].dst} \subseteq Held(p)
                 /\ sourceAccount[p] < req[p].amount
         /\ (~Returned(p) /\ Returned(p)'
                /\ ~({req[p].src, req[p].dst} \subseteq DOMAIN accounts'))
              => result'[p] # "ErrInsufficientFunds"
    ]_vars

\* The source was found with less than the amount, the destination was not
\* found: ErrNotFound.
C32_Witness ==
    /\ Returned(1)
    /\ result[1] = "ErrNotFound"
    /\ foundSource[1] /\ ~foundDest[1]
    /\ req[1].dst \notin DOMAIN accounts
    /\ sourceAccount[1] < req[1].amount

\* The calls for account i that have returned.
CreatedBy(i) == {c \in Creators : creating[c].pc = "done" /\ creating[c].id = i}

\* C33: every CreateAccount call that has returned returned nil, and once a
\* call for an account has returned the account has a row whose balance is
\* the balance passed by exactly one of the calls made for it.
C33_ConcurrentCreation ==
    /\ \A c \in Creators : creating[c].pc = "done" => creating[c].err = "nil"
    /\ \A i \in PairIds :
          CreatedBy(i) # {} =>
              /\ i \in DOMAIN accounts
              /\ Cardinality({c \in Creators :
                                /\ creating[c].id = i
                                /\ creating[c].balance = accounts[i]}) = 1

\* C34: at most 5 attempts are made, none after one in which New and Ping
\* both succeeded, and when no attempt succeeded in both the schema is not
\* initialized, no store is returned, and what is returned is the error
\* "could not connect to database after retries".
C34_ConnectionRetry ==
    /\ Len(boot.tries) <= MaxAttempts
    /\ \A k \in 1 .. Len(boot.tries) - 1 : boot.tries[k] # "ok"
    /\ (\A k \in 1 .. Len(boot.tries) : boot.tries[k] # "ok") =>
          /\ boot.pc # "schema"
          /\ boot.schema = "none"
          /\ boot.pc = "done" =>
                boot.ret = "could not connect to database after retries"

\* C35: a POST /accounts whose body does not decode or whose initial balance
\* is negative is answered 400, and one whose GetAccount failed is answered
\* 500, all three without CreateAccount having been called or a row
\* inserted; one whose CreateAccount failed is answered 500.
C35_FailurePaths ==
    \A h \in Handlers :
        /\ (http[h].pc # "idle"
              /\ (~http[h].body.ok \/ http[h].body.balance < 0))
             => /\ http[h].pc = "done"
                /\ http[h].status = 400
                /\ ~http[h].called /\ ~http[h].inserted
        /\ http[h].failed = "GetAccount"
             => /\ http[h].pc = "done"
                /\ http[h].status = 500
                /\ ~http[h].called /\ ~http[h].inserted
        /\ http[h].failed = "CreateAccount"
             => /\ http[h].pc = "done"
                /\ http[h].status = 500

\* One request was refused for its negative balance and the other failed in
\* its existence check, and the table is still empty.
C35_Witness ==
    /\ http[1].pc = "done" /\ http[1].body.ok /\ http[1].body.balance < 0
    /\ http[1].status = 400
    /\ http[2].failed = "GetAccount"
    /\ accounts = EmptyMap

====
